---- MODULE Spec2Model ----
(***************************************************************************)
(* The authenticated API-access layer of the social-media client: the      *)
(* AuthService class (login, ensureApiKey, createApiKey, logout,           *)
(* isAuthenticated, getCurrentUser), getAuthHeaders and the browser's      *)
(* localStorage they share.  The repository holds two AuthService          *)
(* sources: src/js/api/auth.js (login calls createApiKey, which catches    *)
(* its own errors) and src/unnamed/part_001 (login calls ensureApiKey      *)
(* inside a try/catch, createApiKey re-throws).  Both are modelled; impl   *)
(* says which one a run uses.                                              *)
(*                                                                         *)
(* Every async method is a call in a slot of calls; it advances from one   *)
(* suspension point (await) to the next in one step, and steps of          *)
(* different calls interleave freely, as tasks of one event loop do.       *)
(***************************************************************************)
EXTENDS Integers, Sequences, FiniteSets, TLC

VARIABLES
    impl,           \* which AuthService source the run uses
    localStorage,   \* the browser store: a function on the keys present
    calls,          \* the async calls in flight, one per slot
    last,           \* what the latest step completed (an observation)
    keyToken,       \* the bearer token of the key request whose answer put
                    \* the stored apiKey there (NULL: none); an observation,
                    \* kept only in runs that start with it switched on
    ui              \* the page: what SocialMediaApp and the DOM hold

vars == <<impl, localStorage, calls, last, keyToken, ui>>

----------------------------------------------------------------------------
\* Bounds and input sets

NumCalls == 2                       \* async calls that may be in flight at once
Calls == 1..NumCalls

Impls == {"auth_js", "part_001"}

NULL == "null"                      \* JavaScript null / undefined / absent
Untracked == "untracked"            \* keyToken when key requests are not tracked

Tokens == {"t1", "t2"}              \* bearer tokens the server may issue
Keys == {"k1", "k2"}                \* API keys the server may issue

\* data.data of a login response; accessToken may be missing or empty
LoginDatas ==
    { [name |-> "ola",  accessToken |-> "t1"],
      [name |-> "kari", accessToken |-> "t2"],
      [name |-> "ola",  accessToken |-> ""],
      [name |-> "kari", accessToken |-> NULL] }

NoData == [name |-> NULL, accessToken |-> NULL]

\* data.errors of a response: a list of messages, possibly missing (empty)
ErrorLists == { <<>>, <<"e1", "e2">> }

KeyStatuses == {201, 400, 401, 500, 503}
LoginStatuses == {200, 401}

\* What fetch + response.json() can deliver for POST /auth/login.
\* net = FALSE: fetch rejected (no response).  json = FALSE: the body does
\* not parse.
LoginResponses ==
    { [net |-> FALSE, status |-> 0, json |-> FALSE, data |-> NoData, errors |-> <<>>] }
    \cup { [net |-> TRUE, status |-> s, json |-> FALSE, data |-> NoData, errors |-> <<>>]
             : s \in LoginStatuses }
    \cup { [net |-> TRUE, status |-> 401, json |-> TRUE, data |-> NoData, errors |-> e]
             : e \in ErrorLists }
    \cup { [net |-> TRUE, status |-> 200, json |-> TRUE, data |-> d, errors |-> <<>>]
             : d \in LoginDatas }

\* What fetch + response.json() can deliver for POST /auth/create-api-key.
KeyResponses ==
    { [net |-> FALSE, status |-> 0, json |-> FALSE, key |-> NULL, errors |-> <<>>] }
    \cup { [net |-> TRUE, status |-> s, json |-> FALSE, key |-> NULL, errors |-> <<>>]
             : s \in {500} }
    \cup { [net |-> TRUE, status |-> s, json |-> TRUE, key |-> NULL, errors |-> e]
             : s \in {400, 503}, e \in ErrorLists }
    \cup { [net |-> TRUE, status |-> s, json |-> TRUE, key |-> NULL, errors |-> <<"e1", "e2">>]
             : s \in {401, 500} }
    \cup { [net |-> TRUE, status |-> 201, json |-> TRUE, key |-> k, errors |-> <<>>]
             : k \in Keys \cup {NULL} }

NoResp == [net |-> FALSE, status |-> -1, json |-> FALSE, key |-> NULL, errors |-> <<>>]
NoBody == [data |-> NoData, errors |-> <<"no body">>]

\* a request as fetch gets it: the URL (path and query string, each a list of
\* parts), the method, the headers and the JSON body
NoPayload == [none |-> TRUE]
NoReq == [method |-> "none", path |-> <<>>, query |-> <<>>, headers |-> <<>>,
          payload |-> NoPayload]

----------------------------------------------------------------------------
\* JavaScript helpers

\* truthiness of a string-or-null value
Truthy(v) == v # NULL /\ v # ""

\* response.ok that takes only a 5xx status for a failure
Ok_below500(status) == status >= 200 /\ status <= 499

\* response.ok
Ok(status) == status >= 200 /\ status <= 299

\* `${response.status}`
StatusText(status) ==
    CASE status = 200 -> "200" [] status = 201 -> "201" [] status = 400 -> "400"
      [] status = 401 -> "401" [] status = 500 -> "500" [] status = 503 -> "503"
      [] OTHER -> "0"

\* data.errors?.[0]?.message || fallback   (messages are sequences of parts)
FirstErrorOr(errors, fallback) ==
    IF Len(errors) >= 1 /\ Truthy(errors[1]) THEN <<errors[1]>> ELSE fallback

\* error.message of what fetch rejects with, and of what response.json()
\* rejects with (both set by the browser)
FetchFailed == <<"Failed to fetch">>
JsonSyntaxError == <<"Unexpected token in JSON">>

\* JSON.stringify(data.data) and JSON.parse
Stringify(d) == <<"json", d.name, d.accessToken>>
Parse(s) == [name |-> s[2], accessToken |-> s[3]]

----------------------------------------------------------------------------
\* Strings the code takes apart.  A text is the sequence of its characters
\* (or of larger parts that are never split); NoText is an argument that was
\* not passed (undefined) or is null, NoNumber a number that was not passed.

NoText == <<NULL>>
NoNumber == -1

TextTruthy(t) == t # NoText /\ t # <<>>

Whitespace == {" ", "\t"}

\* String.prototype.trim
RECURSIVE TrimStart(_)
TrimStart(t) ==
    IF t # <<>> /\ Head(t) \in Whitespace THEN TrimStart(Tail(t)) ELSE t

RECURSIVE TrimEnd(_)
TrimEnd(t) ==
    IF t # <<>> /\ t[Len(t)] \in Whitespace THEN TrimEnd(SubSeq(t, 1, Len(t) - 1)) ELSE t

Trim(t) == TrimEnd(TrimStart(t))

\* String.prototype.split(','): the pieces between the commas, "" included
RECURSIVE SplitFrom(_, _)
SplitFrom(t, piece) ==
    IF t = <<>> THEN <<piece>>
    ELSE IF Head(t) = "," THEN <<piece>> \o SplitFrom(Tail(t), <<>>)
    ELSE SplitFrom(Tail(t), Append(piece, Head(t)))

Split(t) == SplitFrom(t, <<>>)

\* String.prototype.toLowerCase, on the letters the inputs use
LowerChar(ch) ==
    CASE ch = "X" -> "x" [] ch = "S" -> "s" [] ch = "T" -> "t" [] ch = "U" -> "u"
      [] ch = "D" -> "d" [] ch = "N" -> "n" [] ch = "O" -> "o" [] ch = "R" -> "r"
      [] ch = "F" -> "f" [] OTHER -> ch

toLowerCase(t) == [i \in 1..Len(t) |-> LowerChar(t[i])]

\* String.prototype.endsWith
endsWith(t, suffix) ==
    Len(suffix) <= Len(t) /\ SubSeq(t, Len(t) - Len(suffix) + 1, Len(t)) = suffix

\* Number.prototype.toString for a non-negative integer
Digit(d) ==
    CASE d = 0 -> "0" [] d = 1 -> "1" [] d = 2 -> "2" [] d = 3 -> "3" [] d = 4 -> "4"
      [] d = 5 -> "5" [] d = 6 -> "6" [] d = 7 -> "7" [] d = 8 -> "8" [] OTHER -> "9"

RECURSIVE toString(_)
toString(n) == IF n < 10 THEN <<Digit(n)>> ELSE Append(toString(n \div 10), Digit(n % 10))

\* encodeURIComponent, and the form encoding URLSearchParams.toString()
\* applies to a value: letters and digits stay, the rest is escaped
EncodeChar(ch, space) ==
    CASE ch = " " -> space [] ch = "," -> "%2C" [] ch = "\t" -> "%09" [] OTHER -> ch

encodeURIComponent(t) == [i \in 1..Len(t) |-> EncodeChar(t[i], "%20")]

FormEncode(t) == [i \in 1..Len(t) |-> EncodeChar(t[i], "+")]

----------------------------------------------------------------------------
\* localStorage

getItem(ls, k) == IF k \in DOMAIN ls THEN ls[k] ELSE NULL

setItem(ls, k, v) == [x \in (DOMAIN ls) \cup {k} |-> IF x = k THEN v ELSE ls[x]]

removeItem(ls, k) == [x \in (DOMAIN ls) \ {k} |-> ls[x]]

EmptyStorage == [x \in {} |-> NULL]

\* config.js getAuthHeaders: the default headers, plus Authorization when a
\* token is stored, plus X-Noroff-API-Key when a key is stored
API_CONFIG_HEADERS == [x \in {"Content-Type"} |-> <<"application/json">>]

\* getAuthHeaders with the key header nested under the token test
getAuthHeaders_keyUnderToken(ls) ==
    LET token == getItem(ls, "authToken")
        apiKey == getItem(ls, "apiKey")
        h1 == setItem(API_CONFIG_HEADERS, "Authorization", <<"Bearer ", token>>)
    IN  IF Truthy(token)
        THEN (IF Truthy(apiKey) THEN setItem(h1, "X-Noroff-API-Key", <<apiKey>>) ELSE h1)
        ELSE API_CONFIG_HEADERS

getAuthHeaders(ls) ==
    LET token == getItem(ls, "authToken")
        apiKey == getItem(ls, "apiKey")
        h1 == IF Truthy(token)
                THEN setItem(API_CONFIG_HEADERS, "Authorization", <<"Bearer ", token>>)
                ELSE API_CONFIG_HEADERS
    IN  IF Truthy(apiKey) THEN setItem(h1, "X-Noroff-API-Key", <<apiKey>>) ELSE h1

\* isAuthenticated with || for &&
isAuthenticated_either ==
    Truthy(getItem(localStorage, "authToken")) \/ Truthy(getItem(localStorage, "apiKey"))

\* isAuthenticated as its doc comment has it: "true if user has valid
\* authentication token"
isAuthenticated_tokenOnly == Truthy(getItem(localStorage, "authToken"))

\* AuthService.isAuthenticated: !!(token && apiKey)
isAuthenticated ==
    Truthy(getItem(localStorage, "authToken")) /\ Truthy(getItem(localStorage, "apiKey"))

\* AuthService.getCurrentUser: userData ? JSON.parse(userData) : null
getCurrentUser ==
    IF "userData" \in DOMAIN localStorage THEN Parse(localStorage["userData"]) ELSE NoData

----------------------------------------------------------------------------
\* The page.  view: which of authPage and mainPage is shown ("none": the
\* DOMContentLoaded handler has not run yet).  alert: the text of the latest
\* showAlert.  loads: per call slot, the search and filter of the loadPosts
\* that awaits the getPosts in that slot, and whether it is the newest load
\* issued.  feed: the load whose posts postsFeed shows.  currentUser:
\* this.currentUser.

NoLoad == [search |-> NoText, filter |-> NoText, newest |-> FALSE]

NoPage == [view |-> "none", alert |-> <<>>, loads |-> [c \in Calls |-> NoLoad],
           feed |-> NoLoad, currentUser |-> NoData]

----------------------------------------------------------------------------
\* Calls and observations

Idle == [op |-> "none", pc |-> "idle", body |-> NoBody, hadKey |-> FALSE,
         solo |-> TRUE, keyReqs |-> 0, sentToken |-> NULL]

\* What a step lets an observer see.  op, kind, message, value: the call that
\* settled in the step and how (value: what its promise resolved with).
\* body, keyResp: the answers the call got from the login and the key
\* endpoint; keyReqs: the key requests it sent; hadKey: whether an apiKey
\* was stored when the call looked (login: when it stored its token; logout:
\* before it ran); solo: see Disturb.  headers: the headers of the key
\* request the step sent, if it sent one.
\* req, resp: the request a resource client sent in the step, and the answer
\* it got.  arg, ret: the argument and the return value of a synchronous
\* function that ran in the step.
NoEvent == [op |-> "none", kind |-> "none", message |-> <<>>, value |-> NoBody,
            body |-> NoBody, keyResp |-> NoResp, keyReqs |-> 0, hadKey |-> FALSE,
            solo |-> TRUE, headers |-> EmptyStorage,
            req |-> NoReq, resp |-> NoResp, arg |-> <<>>, ret |-> NULL]

\* the observation of a call that settles
Settled(call, kind, message, value, keyResp, keyReqs) ==
    [op |-> call.op, kind |-> kind, message |-> message, value |-> value,
     body |-> call.body, keyResp |-> keyResp, keyReqs |-> keyReqs,
     hadKey |-> call.hadKey, solo |-> call.solo, headers |-> EmptyStorage,
     req |-> NoReq, resp |-> NoResp, arg |-> <<>>, ret |-> NULL]

\* solo: since this login stored its token, no logout and no other call has
\* written the store.  Any write by someone else clears it for every login
\* that is waiting for its key.
Disturb(cs, c) ==
    [d \in Calls |-> IF d # c /\ cs[d].op = "login" /\ cs[d].pc \in {"key_delay", "key_fetch"}
                     THEN [cs[d] EXCEPT !.solo = FALSE]
                     ELSE cs[d]]

TypeOK ==
    /\ impl \in Impls
    /\ DOMAIN localStorage \subseteq {"authToken", "apiKey", "userData"}
    /\ \A c \in Calls : calls[c].pc \in {"idle", "login_fetch", "key_delay", "key_fetch",
                                         "fetch", "register_fetch"}

Init ==
    /\ impl \in Impls
    /\ ui = NoPage
    /\ localStorage = EmptyStorage
    /\ calls = [c \in Calls |-> Idle]
    /\ last = NoEvent
    /\ keyToken = Untracked

----------------------------------------------------------------------------
\* AuthService.createApiKey

\* the messages createApiKey throws (part_001 lines 136, 138, 140, 149)
Unauthorized == <<"Unauthorized - Please login again">>
ServerError == <<"Server error - Please try again later">>
KeyCreationFailed(status) == <<"API key creation failed (", StatusText(status), ")">>
NoKeyReturned == <<"No API key returned from server">>

\* What createApiKey makes of the key endpoint's answer: how its promise
\* settles, with which error message, and the key it stores (NULL: none).
\* part_001 lines 130-154 re-throw every failure; auth.js lines 100-113
\* catch every failure and resolve.
createApiKeyOutcome(i, r) ==
    IF i = "part_001" THEN
        IF ~r.net THEN [kind |-> "rejected", message |-> FetchFailed, key |-> NULL]
        ELSE IF ~r.json THEN [kind |-> "rejected", message |-> JsonSyntaxError, key |-> NULL]
        ELSE IF ~Ok(r.status) THEN
            [kind |-> "rejected",
             message |->
                IF r.status = 401 THEN Unauthorized
                ELSE IF r.status = 500 THEN ServerError
                ELSE FirstErrorOr(r.errors, KeyCreationFailed(r.status)),
             key |-> NULL]
        ELSE IF Truthy(r.key) THEN [kind |-> "resolved", message |-> <<>>, key |-> r.key]
        ELSE [kind |-> "rejected", message |-> NoKeyReturned, key |-> NULL]
    ELSE
        [kind |-> "resolved", message |-> <<>>,
         key |-> IF r.net /\ r.json /\ Ok(r.status) /\ Truthy(r.key) THEN r.key ELSE NULL]

\* createApiKey that forgets to persist the key
storeKey_never(ls, out) == ls

\* createApiKey that drops the token when it gets no key ("please login again")
storeKey_orDropToken(ls, out) ==
    IF out.key # NULL THEN setItem(ls, "apiKey", out.key) ELSE removeItem(ls, "authToken")

\* localStorage.setItem('apiKey', data.data.key), when there is a key
storeKey(ls, out) == IF out.key # NULL THEN setItem(ls, "apiKey", out.key) ELSE ls

\* the token getAuthHeaders puts into the Authorization header (NULL: none),
\* noted when key requests are tracked
bearerOf(ls) ==
    IF keyToken = Untracked THEN NULL
    ELSE IF Truthy(getItem(ls, "authToken")) THEN getItem(ls, "authToken") ELSE NULL

\* The synchronous part of createApiKey, run inside `call` against store ls:
\* part_001 first awaits a 100 ms timer; auth.js reads the headers and sends
\* the request at once.
createApiKeyEnter(i, call, ls) ==
    IF i = "part_001" THEN [call EXCEPT !.pc = "key_delay"]
    ELSE [call EXCEPT !.pc = "key_fetch", !.keyReqs = @ + 1, !.sentToken = bearerOf(ls)]

\* the headers of the key request a step sends (EmptyStorage: none sent)
SentOnEnter(i, ls) == IF i = "part_001" THEN EmptyStorage ELSE getAuthHeaders(ls)

\* login without the inner try/catch: a key failure fails the login
loginAfterKey_strict(i, body, out) ==
    IF out.kind = "resolved"
    THEN [kind |-> "resolved", message |-> <<>>, value |-> body]
    ELSE [kind |-> "rejected", message |-> <<"Login failed: ">> \o out.message,
          value |-> NoBody]

\* How login settles once its key provisioning has settled.  part_001 lines
\* 79-87: the inner try/catch drops the error.  auth.js lines 79-85: a
\* rejection would reach the outer catch and be wrapped.
loginAfterKey(i, body, out) ==
    IF i = "part_001" \/ out.kind = "resolved"
    THEN [kind |-> "resolved", message |-> <<>>, value |-> body]
    ELSE [kind |-> "rejected", message |-> <<"Login failed: ">> \o out.message,
          value |-> NoBody]

\* ensureApiKey without its early return
ensureApiKeyHasKey_never(ls) == FALSE

\* AuthService.ensureApiKey line 100-103: is there a key already?
ensureApiKeyHasKey(ls) == Truthy(getItem(ls, "apiKey"))

\* logout that leaves userData behind
logoutStore_keepsUser(ls) == removeItem(removeItem(ls, "authToken"), "apiKey")

\* AuthService.logout: the three removeItem calls
logoutStore(ls) == removeItem(removeItem(removeItem(ls, "authToken"), "apiKey"), "userData")

\* login that keeps the user already stored
loginStore_keepsUser(ls, data) ==
    IF "userData" \in DOMAIN ls THEN setItem(ls, "authToken", data.accessToken)
    ELSE setItem(setItem(ls, "authToken", data.accessToken), "userData", Stringify(data))

\* AuthService.login lines 75-76: the two setItem calls
loginStore(ls, data) ==
    setItem(setItem(ls, "authToken", data.accessToken), "userData", Stringify(data))

----------------------------------------------------------------------------
\* Actions

Start(c, op) == [Idle EXCEPT !.op = op]

\* a new call takes the first free slot (slots are interchangeable)
Free(c) == calls[c].pc = "idle" /\ \A d \in Calls : d < c => calls[d].pc # "idle"

\* login is called: the request to /auth/login is sent (lines 59-65)
login(c) ==
    /\ Free(c)
    /\ calls' = [calls EXCEPT ![c] = [Start(c, "login") EXCEPT !.pc = "login_fetch"]]
    /\ last' = NoEvent
    /\ UNCHANGED <<impl, localStorage, keyToken>>

\* the login request settles and login runs on to its next await or its end
login_resume(c, r) ==
    /\ calls[c].pc = "login_fetch"
    /\ LET body == [data |-> r.data, errors |-> r.errors]
           call == [calls[c] EXCEPT !.body = body]
           reject(m) ==
               /\ localStorage' = localStorage
               /\ calls' = [calls EXCEPT ![c] = Idle]
               /\ last' = Settled(call, "rejected", <<"Login failed: ">> \o m, NoBody,
                                  NoResp, 0)
       IN  IF ~r.net THEN reject(FetchFailed)
           ELSE IF ~r.json THEN reject(JsonSyntaxError)
           ELSE IF ~Ok(r.status) THEN reject(FirstErrorOr(r.errors, <<"Login failed">>))
           ELSE IF ~Truthy(r.data.accessToken) THEN
               /\ localStorage' = localStorage
               /\ calls' = [calls EXCEPT ![c] = Idle]
               /\ last' = Settled(call, "resolved", <<>>, body, NoResp, 0)
           ELSE
               LET ls1 == loginStore(localStorage, r.data)
                   held == [call EXCEPT
                               !.hadKey = Truthy(getItem(localStorage, "apiKey"))]
               IN  /\ localStorage' = ls1
                   /\ IF impl = "part_001" /\ ensureApiKeyHasKey(ls1) THEN
                          /\ calls' = Disturb([calls EXCEPT ![c] = Idle], c)
                          /\ last' = Settled(held, "resolved", <<>>, body, NoResp, 0)
                      ELSE
                          /\ calls' = Disturb([calls EXCEPT ![c] =
                                                  createApiKeyEnter(impl, held, ls1)], c)
                          /\ last' = [NoEvent EXCEPT !.headers = SentOnEnter(impl, ls1)]
    /\ UNCHANGED <<impl, keyToken>>

\* ensureApiKey is called directly (part_001 only, lines 98-107)
ensureApiKey(c) ==
    /\ impl = "part_001"
    /\ Free(c)
    /\ LET call == [Start(c, "ensureApiKey") EXCEPT
                       !.hadKey = Truthy(getItem(localStorage, "apiKey"))]
       IN  IF ensureApiKeyHasKey(localStorage) THEN
               /\ calls' = calls
               /\ last' = Settled(call, "resolved", <<>>, NoBody, NoResp, 0)
           ELSE
               /\ calls' = [calls EXCEPT ![c] = createApiKeyEnter(impl, call, localStorage)]
               /\ last' = [NoEvent EXCEPT !.headers = SentOnEnter(impl, localStorage)]
    /\ UNCHANGED <<impl, localStorage, keyToken>>

\* createApiKey is called directly
createApiKey(c) ==
    /\ Free(c)
    /\ calls' = [calls EXCEPT ![c] = createApiKeyEnter(impl, Start(c, "createApiKey"), localStorage)]
    /\ last' = [NoEvent EXCEPT !.headers = SentOnEnter(impl, localStorage)]
    /\ UNCHANGED <<impl, localStorage, keyToken>>

\* part_001 lines 117-128: the timer fires, the headers are read from the
\* store as it is now, and the key request is sent
createApiKey_timer(c) ==
    /\ calls[c].pc = "key_delay"
    /\ calls' = [calls EXCEPT ![c].pc = "key_fetch", ![c].keyReqs = @ + 1,
                              ![c].sentToken = bearerOf(localStorage)]
    /\ last' = [NoEvent EXCEPT !.headers = getAuthHeaders(localStorage)]
    /\ UNCHANGED <<impl, localStorage, keyToken>>

\* the key request settles; createApiKey ends, and so does the ensureApiKey
\* or login that awaited it
createApiKey_resume(c, r) ==
    /\ calls[c].pc = "key_fetch"
    /\ LET call == calls[c]
           out == createApiKeyOutcome(impl, r)
           res == IF call.op = "login" THEN loginAfterKey(impl, call.body, out)
                  ELSE [kind |-> out.kind, message |-> out.message, value |-> NoBody]
       IN  /\ localStorage' = storeKey(localStorage, out)
           /\ calls' = IF out.key # NULL THEN Disturb([calls EXCEPT ![c] = Idle], c)
                       ELSE [calls EXCEPT ![c] = Idle]
           /\ last' = Settled(call, res.kind, res.message, res.value, r, call.keyReqs)
           /\ keyToken' = IF keyToken # Untracked /\ out.key # NULL THEN call.sentToken
                          ELSE keyToken
    /\ UNCHANGED impl

\* logout is synchronous: no call slot, no request
logout ==
    /\ localStorage' = logoutStore(localStorage)
    /\ calls' = Disturb(calls, 0)
    /\ last' = [NoEvent EXCEPT !.op = "logout", !.kind = "resolved",
                                !.hadKey = Truthy(getItem(localStorage, "apiKey")),
                                !.body = [data |-> getCurrentUser, errors |-> <<>>]]
    /\ keyToken' = IF keyToken = Untracked THEN Untracked ELSE NULL
    /\ UNCHANGED impl

Next ==
    \/ \E c \in Calls : login(c) /\ UNCHANGED ui
    \/ \E c \in Calls, r \in LoginResponses : login_resume(c, r) /\ UNCHANGED ui
    \/ \E c \in Calls : ensureApiKey(c) /\ UNCHANGED ui
    \/ \E c \in Calls : createApiKey(c) /\ UNCHANGED ui
    \/ \E c \in Calls : createApiKey_timer(c) /\ UNCHANGED ui
    \/ \E c \in Calls, r \in KeyResponses : createApiKey_resume(c, r) /\ UNCHANGED ui
    \/ logout /\ UNCHANGED ui

Spec == Init /\ [][Next]_vars

\* the same program, with the token of every key request noted
KeyInit ==
    /\ impl \in Impls
    /\ ui = NoPage
    /\ localStorage = EmptyStorage
    /\ calls = [c \in Calls |-> Idle]
    /\ last = NoEvent
    /\ keyToken = NULL

KeySpec == KeyInit /\ [][Next]_vars

----------------------------------------------------------------------------
\* The resource clients (PostsService, ProfilesService) and the synchronous
\* helpers, run against a store that earlier sessions may have left in any
\* condition.  ClientSpec is their specification.

\* what localStorage can hold when the page loads
StoredTokens == Tokens \cup {""}
StoredKeys == Keys \cup {""}
StoredUsers == { [name |-> "ola", accessToken |-> "t1"] }

\* the store with token t, key k and user u (NULL: that item is absent)
StoreOf(t, k, u) ==
    LET s1 == IF t = NULL THEN EmptyStorage ELSE setItem(EmptyStorage, "authToken", t)
        s2 == IF k = NULL THEN s1 ELSE setItem(s1, "apiKey", k)
    IN  IF u = NoData THEN s2 ELSE setItem(s2, "userData", Stringify(u))

Stores ==
    { StoreOf(t, k, u) : t \in StoredTokens \cup {NULL}, k \in StoredKeys \cup {NULL},
                         u \in StoredUsers \cup {NoData} }

\* ... of which the clients are run on those with a proper token and key
ClientStores ==
    { StoreOf(t, k, u) : t \in {"t1", NULL}, k \in {"k1", NULL},
                         u \in StoredUsers \cup {NoData} }

ClientInit ==
    /\ impl \in Impls
    /\ ui = NoPage
    /\ localStorage \in ClientStores
    /\ calls = [c \in Calls |-> Idle]
    /\ last = NoEvent
    /\ keyToken = Untracked

----------------------------------------------------------------------------
\* How PostsService builds its requests

BASE_URL == "https://v2.api.noroff.dev"
POSTS == "/social/posts"
PROFILES == "/social/profiles"

buildApiUrl(endpoint) == <<BASE_URL, endpoint>>

Request(method, url, headers, payload) ==
    [method |-> method, path |-> url.path, query |-> url.query, headers |-> headers,
     payload |-> payload]

\* getPosts whose search URL forgets the listing's parameters
getPostsUrl_searchDropsPaging(limit, page, tag, search) ==
    LET params ==
            << <<"limit", toString(IF limit = NoNumber THEN 12 ELSE limit)>>,
               <<"page", toString(IF page = NoNumber THEN 1 ELSE page)>>,
               <<"_author", <<"true">>>>,
               <<"_comments", <<"true">>>>,
               <<"_reactions", <<"true">>>> >>
            \o (IF TextTruthy(tag) THEN << <<"_tag", FormEncode(tag)>> >> ELSE <<>>)
    IN  IF TextTruthy(search)
        THEN [path |-> Append(buildApiUrl(POSTS), "/search"),
              query |-> << <<"q", encodeURIComponent(search)>> >>]
        ELSE [path |-> buildApiUrl(POSTS), query |-> params]

\* getPosts lines 199-217: the URL.  limit and page default to 12 and 1 when
\* not passed; _tag is appended when tag is non-empty; a non-empty search
\* replaces the URL by the search endpoint's, with q first.
getPostsUrl(limit, page, tag, search) ==
    LET params ==
            << <<"limit", toString(IF limit = NoNumber THEN 12 ELSE limit)>>,
               <<"page", toString(IF page = NoNumber THEN 1 ELSE page)>>,
               <<"_author", <<"true">>>>,
               <<"_comments", <<"true">>>>,
               <<"_reactions", <<"true">>>> >>
            \o (IF TextTruthy(tag) THEN << <<"_tag", FormEncode(tag)>> >> ELSE <<>>)
    IN  IF TextTruthy(search)
        THEN [path |-> Append(buildApiUrl(POSTS), "/search"),
              query |-> << <<"q", encodeURIComponent(search)>> >> \o params]
        ELSE [path |-> buildApiUrl(POSTS), query |-> params]

\* searchPosts line 385: getPosts({ search: query, limit, page }), its own
\* defaults for limit and page being the same 12 and 1
searchPostsUrl(query, limit, page) ==
    getPostsUrl(IF limit = NoNumber THEN 12 ELSE limit,
                IF page = NoNumber THEN 1 ELSE page, NoText, query)

\* tags.filter(tag => tag.trim().length > 0).map(tag => tag.trim())
NonBlank(tag) == Len(Trim(tag)) > 0

\* cleanTags that trims but keeps the blank entries
cleanTags_keepBlank(tags) == [i \in 1..Len(tags) |-> Trim(tags[i])]

cleanTags(tags) ==
    LET kept == SelectSeq(tags, NonBlank)
    IN  [i \in 1..Len(kept) |-> Trim(kept[i])]

\* postPayload.media: { url: media.trim(), alt: title || 'Post media' }
mediaOf(title, media) ==
    [url |-> Trim(media), alt |-> IF title # <<>> THEN title ELSE <<"Post media">>]

\* createPost that always sends a media field, null when there is no URL
createPostPayload_nullMedia(title, body, tags, media) ==
    [title |-> Trim(title), body |-> Trim(body), tags |-> cleanTags(tags),
     media |-> IF TextTruthy(media) /\ Trim(media) # <<>>
               THEN mediaOf(title, media)
               ELSE [url |-> NoText, alt |-> NoText]]

\* createPost lines 278-289: the payload
createPostPayload(title, body, tags, media) ==
    IF TextTruthy(media) /\ Trim(media) # <<>>
    THEN [title |-> Trim(title), body |-> Trim(body), tags |-> cleanTags(tags),
          media |-> mediaOf(title, media)]
    ELSE [title |-> Trim(title), body |-> Trim(body), tags |-> cleanTags(tags)]

\* updatePost lines 322-333: the payload
updatePostPayload(title, body, tags, media) ==
    IF TextTruthy(media) /\ Trim(media) # <<>>
    THEN [title |-> Trim(title), body |-> Trim(body), tags |-> cleanTags(tags),
          media |-> mediaOf(title, media)]
    ELSE [title |-> Trim(title), body |-> Trim(body), tags |-> cleanTags(tags)]

\* the URL of one post
postUrl(id) == [path |-> buildApiUrl(POSTS) \o <<"/", id>>, query |-> <<>>]

\* handleSavePost line 380: the tags field, split at the commas
NonEmpty(t) == t # <<>>

parseTags(value) ==
    LET tagsInput == Trim(value)
        pieces == Split(tagsInput)
    IN  IF tagsInput = <<>> THEN <<>>
        ELSE SelectSeq([i \in 1..Len(pieces) |-> Trim(pieces[i])], NonEmpty)

\* handleSavePost lines 370-381: the postData it passes on
postDataOf(titleV, bodyV, tagsV, mediaV) ==
    [title |-> Trim(titleV), body |-> Trim(bodyV), tags |-> parseTags(tagsV),
     media |-> IF Trim(mediaV) # <<>> THEN Trim(mediaV) ELSE NoText]

\* AuthService.isValidNoroffEmail
noroffDomains ==
    { <<"@", "n", "o", "r", "o", "f", "f", ".", "n", "o">>,
      <<"@", "s", "t", "u", "d", ".", "n", "o", "r", "o", "f", "f", ".", "n", "o">> }

\* isValidNoroffEmail without the toLowerCase()
isValidNoroffEmail_caseSensitive(email) ==
    \E domain \in noroffDomains : endsWith(email, domain)

isValidNoroffEmail(email) == \E domain \in noroffDomains : endsWith(toLowerCase(email), domain)


----------------------------------------------------------------------------
\* The request builders and the synchronous helpers applied to inputs drawn
\* from bounded sets.  BuildSpec is their specification: each step is one
\* call, observed up to the point where its request has been handed to fetch
\* (or, for a synchronous helper, where it returned).

MaxTags == 3                        \* longest tags array passed to createPost
MaxInputLen == 4                    \* longest text typed into the tags field

Limits == {NoNumber, 5, 100}
Pages == {NoNumber, 2}
TagFilters == {NoText, <<>>, <<"a">>, <<"a", " ", "b">>}
Searches == {NoText, <<>>, <<"c", "a", "t", "s">>, <<"a", " ", "b">>, <<" ">>}

Titles == { <<"T">>, <<" ", "T", " ">> }
Bodies == { <<"B", " ">> }
TagTexts == { <<>>, <<" ">>, <<"a">>, <<" ", "a", " ">>, <<"b", " ", "b">> }
TagLists == UNION { [1..n -> TagTexts] : n \in 0..MaxTags }
Medias == { NoText, <<>>, <<" ">>, <<"u">>, <<" ", "u", " ">> }
PostIds == {"p1"}

\* what can be typed into the tags field: every short text over a, b, blank
\* and comma, and the text "a, , b ,"
TagInputs ==
    UNION { [1..n -> {"a", "b", " ", ","}] : n \in 0..MaxInputLen }
    \cup { <<"a", ",", " ", ",", " ", "b", " ", ",">> }
FieldValues == { <<" ">>, <<" ", "T">> }
MediaValues == { <<" ">>, <<"u", " ">> }

Emails ==
    { <<"X", "@", "S", "T", "U", "D", ".", "N", "O", "R", "O", "F", "F", ".", "N", "O">>,
      <<"x", "@", "s", "t", "u", "d", ".", "n", "o", "r", "o", "f", "f", ".", "n", "o">>,
      <<"x", "@", "g", "m", "a", "i", "l", ".", "c", "o", "m">>,
      <<"x", "@", "n", "o", "r", "o", "f", "f", ".", "n", "o">>,
      <<"x", "@", "N", "o", "r", "o", "f", "f", ".", "N", "o">>,
      <<"X", "@", "n", "o", "r", "o", "f", "f", ".", "n", "o", ".", "x">>,
      <<"x", "@", "n", "o", "r", "o", "f", "f", ".", "n", "o", " ">>,
      <<"x", "n", "o", "r", "o", "f", "f", ".", "n", "o">>,
      <<"@", "N", "O", "R", "O", "F", "F", ".", "N", "O">>,
      <<>> }

\* what is typed into the registration form
RegisterNames == { <<>>, <<"N">> }
RegisterEmails ==
    { <<>>,
      <<"x", "@", "s", "t", "u", "d", ".", "n", "o", "r", "o", "f", "f", ".", "n", "o">>,
      <<"x", "@", "N", "o", "r", "o", "f", "f", ".", "N", "o">>,
      <<"x", "@", "g", "m", "a", "i", "l", ".", "c", "o", "m">> }
RegisterPasswords ==
    { <<>>,
      <<"p", "a", "s", "s", "w", "o", "r">>,
      <<"p", "a", "s", "s", "w", "o", "r", "d">>,
      <<"p", "a", "s", "s", "w", "o", "r", "d", "1">> }

\* a call about to be made, with its arguments
Called(op, arg) == [NoEvent EXCEPT !.op = op, !.kind = "called", !.arg = arg]

PostsArgs ==
    [limit : Limits, page : Pages, tag : TagFilters, search : Searches]
SearchArgs ==
    [limit : Limits, page : Pages, tag : {NoText}, search : Searches]
PostArgs ==
    [id : PostIds, title : Titles, body : Bodies, tags : TagLists, media : Medias]
FormArgs ==
    [title : FieldValues, body : {<<"B">>}, tags : TagInputs, media : MediaValues,
     isEditMode : BOOLEAN]
RegisterArgs ==
    [name : RegisterNames, email : RegisterEmails, password : RegisterPasswords]

BuildCalls ==
    { Called("getPosts", a) : a \in PostsArgs }
    \cup { Called("searchPosts", a) : a \in SearchArgs }
    \cup { Called("createPost", a) : a \in PostArgs }
    \cup { Called("updatePost", a) : a \in PostArgs }
    \cup { Called("handleSavePost", a) : a \in FormArgs }
    \cup { Called("isValidNoroffEmail", a) : a \in Emails }
    \cup { Called("handleRegister", a) : a \in RegisterArgs }

BuildInit ==
    /\ impl \in Impls
    /\ ui = NoPage
    /\ calls = [c \in Calls |-> Idle]
    /\ keyToken = Untracked
    /\ \/ /\ last = Called("getAuthHeaders", <<>>)
          /\ localStorage \in Stores
       \/ /\ last \in BuildCalls
          /\ localStorage \in { EmptyStorage, StoreOf("t1", "k1", NoData) }


Built(req) == [last EXCEPT !.kind = "built", !.req = req]

\* getPosts({limit, page, tag, search}) up to its fetch
getPosts_build ==
    /\ last.op = "getPosts" /\ last.kind = "called"
    /\ last' = Built(Request("GET", getPostsUrl(last.arg.limit, last.arg.page,
                                                last.arg.tag, last.arg.search),
                             getAuthHeaders(localStorage), NoPayload))
    /\ UNCHANGED <<impl, localStorage, calls, keyToken>>

\* searchPosts(query, {limit, page}) up to its fetch
searchPosts_build ==
    /\ last.op = "searchPosts" /\ last.kind = "called"
    /\ last' = Built(Request("GET", searchPostsUrl(last.arg.search, last.arg.limit,
                                                   last.arg.page),
                             getAuthHeaders(localStorage), NoPayload))
    /\ UNCHANGED <<impl, localStorage, calls, keyToken>>

\* createPost({title, body, tags, media}) up to its fetch
createPost_build ==
    /\ last.op = "createPost" /\ last.kind = "called"
    /\ last' = Built(Request("POST", [path |-> buildApiUrl(POSTS), query |-> <<>>],
                             getAuthHeaders(localStorage),
                             createPostPayload(last.arg.title, last.arg.body,
                                               last.arg.tags, last.arg.media)))
    /\ UNCHANGED <<impl, localStorage, calls, keyToken>>

\* updatePost(id, {title, body, tags, media}) up to its fetch
updatePost_build ==
    /\ last.op = "updatePost" /\ last.kind = "called"
    /\ last' = Built(Request("PUT", postUrl(last.arg.id), getAuthHeaders(localStorage),
                             updatePostPayload(last.arg.title, last.arg.body,
                                               last.arg.tags, last.arg.media)))
    /\ UNCHANGED <<impl, localStorage, calls, keyToken>>

\* handleSavePost with the form fields as typed, up to the fetch of the
\* createPost or updatePost it calls; nothing is sent when title or body is
\* blank
handleSavePost_build ==
    /\ last.op = "handleSavePost" /\ last.kind = "called"
    /\ LET d == postDataOf(last.arg.title, last.arg.body, last.arg.tags, last.arg.media)
       IN  IF d.title = <<>> \/ d.body = <<>> THEN
               last' = [last EXCEPT !.kind = "returned"]
           ELSE IF last.arg.isEditMode THEN
               last' = Built(Request("PUT", postUrl("p1"), getAuthHeaders(localStorage),
                                     updatePostPayload(d.title, d.body, d.tags, d.media)))
           ELSE
               last' = Built(Request("POST", [path |-> buildApiUrl(POSTS), query |-> <<>>],
                                     getAuthHeaders(localStorage),
                                     createPostPayload(d.title, d.body, d.tags, d.media)))
    /\ UNCHANGED <<impl, localStorage, calls, keyToken>>

REGISTER == "/auth/register"

FillInAllFields == <<"Please fill in all fields">>
EmailMustBeNoroff == <<"Email must be @noroff.no or @stud.noroff.no">>
PasswordTooShort == <<"Password must be at least 8 characters">>

\* the alert handleRegister's checks end in, <<>> when all of them pass
registerAlert_noLength(name, email, password) ==
    IF name = <<>> \/ email = <<>> \/ password = <<>> THEN FillInAllFields
    ELSE IF ~isValidNoroffEmail(email) THEN EmailMustBeNoroff
    ELSE <<>>
registerAlert(name, email, password) ==
    IF name = <<>> \/ email = <<>> \/ password = <<>> THEN FillInAllFields
    ELSE IF ~isValidNoroffEmail(email) THEN EmailMustBeNoroff
    ELSE IF Len(password) < 8 THEN PasswordTooShort
    ELSE <<>>

\* the request register({name, email, password}) hands to fetch
registerRequest(name, email, password) ==
    Request("POST", [path |-> buildApiUrl(REGISTER), query |-> <<>>],
            API_CONFIG_HEADERS,
            [name |-> name, email |-> email, password |-> password])

\* handleRegister with the form fields as typed, up to the fetch of the
\* register it calls; a failed check shows an alert and returns
handleRegister_build ==
    /\ last.op = "handleRegister" /\ last.kind = "called"
    /\ LET alert == registerAlert(last.arg.name, last.arg.email, last.arg.password)
       IN  IF alert # <<>> THEN
               last' = [last EXCEPT !.kind = "alert", !.message = alert]
           ELSE
               last' = Built(registerRequest(last.arg.name, last.arg.email,
                                             last.arg.password))
    /\ UNCHANGED <<impl, localStorage, calls, keyToken>>

\* isValidNoroffEmail(email) is called
isValidNoroffEmail_call ==
    /\ last.op = "isValidNoroffEmail" /\ last.kind = "called"
    /\ last' = [last EXCEPT !.kind = "returned", !.ret = isValidNoroffEmail(last.arg)]
    /\ UNCHANGED <<impl, localStorage, calls, keyToken>>

\* getAuthHeaders() is called: synchronous, reads the store
getAuthHeaders_call ==
    /\ last.op = "getAuthHeaders" /\ last.kind = "called"
    /\ last' = [last EXCEPT !.kind = "returned", !.ret = getAuthHeaders(localStorage)]
    /\ UNCHANGED <<impl, localStorage, calls, keyToken>>

BuildNext ==
    \/ getAuthHeaders_call /\ UNCHANGED ui
    \/ getPosts_build /\ UNCHANGED ui
    \/ searchPosts_build /\ UNCHANGED ui
    \/ createPost_build /\ UNCHANGED ui
    \/ updatePost_build /\ UNCHANGED ui
    \/ handleSavePost_build /\ UNCHANGED ui
    \/ handleRegister_build /\ UNCHANGED ui
    \/ isValidNoroffEmail_call /\ UNCHANGED ui

BuildSpec == BuildInit /\ [][BuildNext]_vars

----------------------------------------------------------------------------
\* The calls of PostsService and ProfilesService.  Each sends its request in
\* the step that calls it and settles when the answer is in.  ClientSpec is
\* their specification, with logout running in between.

PostsOps == {"getPosts", "getPostById", "createPost", "updatePost", "deletePost",
             "searchPosts"}
ProfilesOps == {"getProfiles", "getProfileByUsername", "getCurrentProfile",
                "updateProfile", "followUser", "unfollowUser", "getUserPosts",
                "searchProfiles"}
ResourceOps == PostsOps \cup ProfilesOps

\* What fetch + response.json() can deliver to a resource client.  204: the
\* empty answer to DELETE.  The server words its messages as it likes, as
\* the browser words a failed fetch too.
ResourceResponses ==
    { [net |-> FALSE, status |-> 0, json |-> FALSE, key |-> NULL, errors |-> <<>>] }
    \cup { [net |-> TRUE, status |-> s, json |-> FALSE, key |-> NULL, errors |-> <<>>]
             : s \in {204, 500} }
    \cup { [net |-> TRUE, status |-> s, json |-> TRUE, key |-> NULL, errors |-> e]
             : s \in {400, 500}, e \in ErrorLists }
    \cup { [net |-> TRUE, status |-> 400, json |-> TRUE, key |-> NULL,
            errors |-> FetchFailed] }
    \cup { [net |-> TRUE, status |-> 200, json |-> TRUE, key |-> NULL, errors |-> <<>>] }

\* the text each operation throws with: new Error(... || '<text>') and
\* new Error(`<text>: ${error.message}`)
FailText(op) ==
    CASE op = "getPosts" -> "Failed to fetch posts"
      [] op = "searchPosts" -> "Failed to fetch posts"
      [] op = "getPostById" -> "Failed to fetch post"
      [] op = "createPost" -> "Failed to create post"
      [] op = "updatePost" -> "Failed to update post"
      [] op = "deletePost" -> "Failed to delete post"
      [] op = "getProfiles" -> "Failed to fetch profiles"
      [] op = "getProfileByUsername" -> "Failed to fetch profile"
      [] op = "getCurrentProfile" -> "Failed to fetch profile"
      [] op = "updateProfile" -> "Failed to update profile"
      [] op = "followUser" -> "Failed to follow user"
      [] op = "unfollowUser" -> "Failed to unfollow user"
      [] op = "getUserPosts" -> "Failed to fetch user posts"
      [] OTHER -> "Failed to search profiles"

\* getCurrentProfile wraps what getProfileByUsername throws once more
Wrapped(op, m) ==
    IF op = "getCurrentProfile" THEN <<"Failed to fetch current profile", ": ">> \o m
    ELSE m

\* How a resource call settles on answer r: the try block's throw or return,
\* and the catch block's re-throw.  deletePost reads the body only of a
\* non-2xx answer.
resourceOutcome(op, r) ==
    LET thrown(m) == [kind |-> "rejected",
                      message |-> Wrapped(op, <<FailText(op), ": ">> \o m)]
    IN  IF ~r.net THEN thrown(FetchFailed)
        ELSE IF op = "deletePost" /\ Ok(r.status) THEN [kind |-> "resolved", message |-> <<>>]
        ELSE IF ~r.json THEN thrown(JsonSyntaxError)
        ELSE IF ~Ok(r.status) THEN thrown(FirstErrorOr(r.errors, <<FailText(op)>>))
        ELSE [kind |-> "resolved", message |-> <<>>]

\* the URLs of ProfilesService
profileParams == << <<"_followers", <<"true">>>>, <<"_following", <<"true">>>>,
                    <<"_posts", <<"true">>>> >>

pageParams(limit, page) ==
    << <<"limit", toString(IF limit = NoNumber THEN 12 ELSE limit)>>,
       <<"page", toString(IF page = NoNumber THEN 1 ELSE page)>> >>

getProfilesUrl(limit, page, search) ==
    IF TextTruthy(search)
    THEN [path |-> Append(buildApiUrl(PROFILES), "/search"),
          query |-> << <<"q", encodeURIComponent(search)>> >>
                    \o pageParams(limit, page) \o profileParams]
    ELSE [path |-> buildApiUrl(PROFILES),
          query |-> pageParams(limit, page) \o profileParams]

profileUrl(username, rest, query) ==
    [path |-> buildApiUrl(PROFILES) \o <<"/", username>> \o rest, query |-> query]

searchProfilesUrl(query, limit, page) ==
    [path |-> Append(buildApiUrl(PROFILES), "/search"),
     query |-> << <<"q", FormEncode(query)>> >> \o pageParams(limit, page)
               \o profileParams]

postParams == << <<"_author", <<"true">>>>, <<"_comments", <<"true">>>>,
                 <<"_reactions", <<"true">>>> >>

\* updateProfile lines 311-329: bio when passed, avatar and banner when they
\* have a url
NoImage == [url |-> <<>>, alt |-> <<>>]

imageOf(image, fallback) ==
    [url |-> Trim(image.url), alt |-> IF image.alt # <<>> THEN image.alt ELSE fallback]

updateProfilePayload(bio, avatar, banner) ==
    LET d1 == IF bio # NoText THEN setItem(EmptyStorage, "bio", Trim(bio)) ELSE EmptyStorage
        d2 == IF avatar.url # <<>>
              THEN setItem(d1, "avatar", imageOf(avatar, <<"Profile avatar">>)) ELSE d1
    IN  IF banner.url # <<>>
        THEN setItem(d2, "banner", imageOf(banner, <<"Profile banner">>)) ELSE d2

\* arguments the clients are called with here
Usernames == {"ola"}
Queries == {NoText, <<"c", "a", "t", "s">>}
Bios == {NoText, <<" ", "x">>}
Images == {NoImage, [url |-> <<"u", " ">>, alt |-> <<>>]}

\* a call in slot c sends request req and waits for the answer
Send(c, op, url, method, payload) ==
    /\ calls' = [calls EXCEPT ![c] = [Start(c, op) EXCEPT !.pc = "fetch"]]
    /\ last' = [NoEvent EXCEPT !.op = op, !.kind = "sent",
                                !.req = Request(method, url, getAuthHeaders(localStorage),
                                                payload)]
    /\ UNCHANGED <<impl, localStorage, keyToken>>

getPosts(c, search) ==
    /\ Free(c)
    /\ Send(c, "getPosts", getPostsUrl(NoNumber, NoNumber, NoText, search), "GET", NoPayload)

searchPosts(c, query) ==
    /\ Free(c)
    /\ Send(c, "searchPosts", searchPostsUrl(query, NoNumber, NoNumber), "GET", NoPayload)

getPostById(c, id) ==
    /\ Free(c)
    /\ Send(c, "getPostById", [path |-> postUrl(id).path, query |-> postParams], "GET",
         NoPayload)

createPost(c, media) ==
    /\ Free(c)
    /\ Send(c, "createPost", [path |-> buildApiUrl(POSTS), query |-> <<>>], "POST",
         createPostPayload(<<"T">>, <<"B">>, << <<"a">>, <<" ">> >>, media))

updatePost(c, id, media) ==
    /\ Free(c)
    /\ Send(c, "updatePost", postUrl(id), "PUT",
         updatePostPayload(<<"T">>, <<"B">>, << <<"a">>, <<" ">> >>, media))

deletePost(c, id) ==
    /\ Free(c)
    /\ Send(c, "deletePost", postUrl(id), "DELETE", NoPayload)

getProfiles(c, search) ==
    /\ Free(c)
    /\ Send(c, "getProfiles", getProfilesUrl(NoNumber, NoNumber, search), "GET", NoPayload)

getProfileByUsername(c, username) ==
    /\ Free(c)
    /\ Send(c, "getProfileByUsername", profileUrl(username, <<>>, profileParams), "GET",
         NoPayload)

\* getCurrentProfile lines 282-293: throws at once when no user is stored
getCurrentProfile(c) ==
    /\ Free(c)
    /\ IF Truthy(getCurrentUser.name)
       THEN Send(c, "getCurrentProfile",
                 profileUrl(getCurrentUser.name, <<>>, profileParams), "GET", NoPayload)
       ELSE /\ last' = [NoEvent EXCEPT
                        !.op = "getCurrentProfile", !.kind = "rejected",
                        !.message = <<"Failed to fetch current profile", ": ",
                                      "No authenticated user found">>]
         /\ UNCHANGED <<impl, localStorage, calls, keyToken>>

updateProfile(c, username, bio, avatar, banner) ==
    /\ Free(c)
    /\ Send(c, "updateProfile", profileUrl(username, <<>>, <<>>), "PUT",
         updateProfilePayload(bio, avatar, banner))

followUser(c, username) ==
    /\ Free(c)
    /\ Send(c, "followUser", profileUrl(username, <<"/follow">>, <<>>), "PUT", NoPayload)

unfollowUser(c, username) ==
    /\ Free(c)
    /\ Send(c, "unfollowUser", profileUrl(username, <<"/unfollow">>, <<>>), "PUT", NoPayload)

getUserPosts(c, username) ==
    /\ Free(c)
    /\ Send(c, "getUserPosts",
         profileUrl(username, <<"/posts">>, pageParams(NoNumber, NoNumber) \o postParams),
         "GET", NoPayload)

searchProfiles(c, query) ==
    /\ Free(c)
    /\ Send(c, "searchProfiles", searchProfilesUrl(query, NoNumber, NoNumber), "GET",
         NoPayload)

\* the answer to a resource call's request is in: the call settles
resource_resume(c, r) ==
    /\ calls[c].pc = "fetch"
    /\ LET out == resourceOutcome(calls[c].op, r)
       IN  last' = [Settled(calls[c], out.kind, out.message, NoBody, NoResp,
                            calls[c].keyReqs) EXCEPT !.resp = r]
    /\ calls' = [calls EXCEPT ![c] = Idle]
    /\ UNCHANGED <<impl, localStorage, keyToken>>

ClientNext ==
    \/ \E c \in Calls, q \in Queries : getPosts(c, q) /\ UNCHANGED ui
    \/ \E c \in Calls, q \in Queries : searchPosts(c, q) /\ UNCHANGED ui
    \/ \E c \in Calls, id \in PostIds : getPostById(c, id) /\ UNCHANGED ui
    \/ \E c \in Calls, m \in {NoText, <<"u">>} : createPost(c, m) /\ UNCHANGED ui
    \/ \E c \in Calls, id \in PostIds, m \in {NoText, <<"u">>} : updatePost(c, id, m) /\ UNCHANGED ui
    \/ \E c \in Calls, id \in PostIds : deletePost(c, id) /\ UNCHANGED ui
    \/ \E c \in Calls, q \in Queries : getProfiles(c, q) /\ UNCHANGED ui
    \/ \E c \in Calls, u \in Usernames : getProfileByUsername(c, u) /\ UNCHANGED ui
    \/ \E c \in Calls : getCurrentProfile(c) /\ UNCHANGED ui
    \/ \E c \in Calls, u \in Usernames, b \in Bios, a \in Images, bn \in Images :
          updateProfile(c, u, b, a, bn) /\ UNCHANGED ui
    \/ \E c \in Calls, u \in Usernames : followUser(c, u) /\ UNCHANGED ui
    \/ \E c \in Calls, u \in Usernames : unfollowUser(c, u) /\ UNCHANGED ui
    \/ \E c \in Calls, u \in Usernames : getUserPosts(c, u) /\ UNCHANGED ui
    \/ \E c \in Calls, q \in Queries \ {NoText} : searchProfiles(c, q) /\ UNCHANGED ui
    \/ \E c \in Calls, r \in ResourceResponses : resource_resume(c, r) /\ UNCHANGED ui
    \/ logout /\ UNCHANGED ui

ClientSpec == ClientInit /\ [][ClientNext]_vars

----------------------------------------------------------------------------
\* AuthService.register, and every operation of the three services called
\* one at a time against a store in any condition.  FrameSpec is the
\* specification of what each operation does to the store.

\* how register settles on answer r (lines 39-48)
registerOutcome(r) ==
    LET thrown(m) == [kind |-> "rejected", message |-> <<"Registration failed: ">> \o m]
    IN  IF ~r.net THEN thrown(FetchFailed)
        ELSE IF ~r.json THEN thrown(JsonSyntaxError)
        ELSE IF ~Ok(r.status) THEN thrown(FirstErrorOr(r.errors, <<"Registration failed">>))
        ELSE [kind |-> "resolved", message |-> <<>>]

\* register is called: the request to /auth/register is sent (lines 31-37)
register(c, a) ==
    /\ Free(c)
    /\ calls' = [calls EXCEPT ![c] = [Start(c, "register") EXCEPT !.pc = "register_fetch"]]
    /\ last' = [NoEvent EXCEPT !.op = "register", !.kind = "sent",
                                !.req = registerRequest(a.name, a.email, a.password)]
    /\ UNCHANGED <<impl, localStorage, keyToken>>

\* the answer to the registration request is in: register settles
register_resume(c, r) ==
    /\ calls[c].pc = "register_fetch"
    /\ LET out == registerOutcome(r)
       IN  last' = [Settled(calls[c], out.kind, out.message, NoBody, NoResp, 0)
                        EXCEPT !.resp = r]
    /\ calls' = [calls EXCEPT ![c] = Idle]
    /\ UNCHANGED <<impl, localStorage, keyToken>>

NoneInFlight == \A c \in Calls : calls[c].pc = "idle"

FrameInit ==
    /\ impl \in Impls
    /\ ui = NoPage
    /\ localStorage \in ClientStores
    /\ calls = [c \in Calls |-> Idle]
    /\ last = NoEvent
    /\ keyToken = Untracked

FrameNext ==
    \/ \E c \in Calls : NoneInFlight /\ login(c) /\ UNCHANGED ui
    \/ \E c \in Calls, r \in LoginResponses : login_resume(c, r) /\ UNCHANGED ui
    \/ \E c \in Calls : NoneInFlight /\ ensureApiKey(c) /\ UNCHANGED ui
    \/ \E c \in Calls : NoneInFlight /\ createApiKey(c) /\ UNCHANGED ui
    \/ \E c \in Calls : createApiKey_timer(c) /\ UNCHANGED ui
    \/ \E c \in Calls, r \in KeyResponses : createApiKey_resume(c, r) /\ UNCHANGED ui
    \/ \E c \in Calls, a \in RegisterArgs : NoneInFlight /\ register(c, a) /\ UNCHANGED ui
    \/ \E c \in Calls, r \in ResourceResponses : register_resume(c, r) /\ UNCHANGED ui
    \/ \E c \in Calls, q \in Queries : NoneInFlight /\ getPosts(c, q) /\ UNCHANGED ui
    \/ \E c \in Calls, q \in Queries : NoneInFlight /\ searchPosts(c, q) /\ UNCHANGED ui
    \/ \E c \in Calls, id \in PostIds : NoneInFlight /\ getPostById(c, id) /\ UNCHANGED ui
    \/ \E c \in Calls, m \in {NoText, <<"u">>} : NoneInFlight /\ createPost(c, m) /\ UNCHANGED ui
    \/ \E c \in Calls, id \in PostIds, m \in {NoText, <<"u">>} :
          NoneInFlight /\ updatePost(c, id, m) /\ UNCHANGED ui
    \/ \E c \in Calls, id \in PostIds : NoneInFlight /\ deletePost(c, id) /\ UNCHANGED ui
    \/ \E c \in Calls, q \in Queries : NoneInFlight /\ getProfiles(c, q) /\ UNCHANGED ui
    \/ \E c \in Calls, u \in Usernames : NoneInFlight /\ getProfileByUsername(c, u) /\ UNCHANGED ui
    \/ \E c \in Calls : NoneInFlight /\ getCurrentProfile(c) /\ UNCHANGED ui
    \/ \E c \in Calls, u \in Usernames, b \in Bios, a \in Images, bn \in Images :
          NoneInFlight /\ updateProfile(c, u, b, a, bn) /\ UNCHANGED ui
    \/ \E c \in Calls, u \in Usernames : NoneInFlight /\ followUser(c, u) /\ UNCHANGED ui
    \/ \E c \in Calls, u \in Usernames : NoneInFlight /\ unfollowUser(c, u) /\ UNCHANGED ui
    \/ \E c \in Calls, u \in Usernames : NoneInFlight /\ getUserPosts(c, u) /\ UNCHANGED ui
    \/ \E c \in Calls, q \in Queries \ {NoText} : NoneInFlight /\ searchProfiles(c, q) /\ UNCHANGED ui
    \/ \E c \in Calls, r \in ResourceResponses : resource_resume(c, r) /\ UNCHANGED ui
    \/ logout /\ UNCHANGED ui

FrameSpec == FrameInit /\ [][FrameNext]_vars

----------------------------------------------------------------------------
\* The main page (main.js): SocialMediaApp's handlers over the services.
\* A handler that awaits a service call goes on in the step after the one in
\* which the call settled, before anything else runs.  PageSpec is the
\* page's specification.

\* what can be typed into the search box, and picked in the filter select
SearchTexts == { <<>>, <<"c", "a", "t", "s">> }
FilterTexts == { <<"m", "y">> }

\* a call awaited by a handler settled in the latest step
Due(op) == last.op = op /\ last.kind \in {"resolved", "rejected"}
Ready == ~Due("login") /\ ~Due("getPosts")

\* the latest step was the end of handler op
Returned(op) == [NoEvent EXCEPT !.op = op, !.kind = "returned"]

\* checkAuthStatus lines 46-53: which page togglePageVisibility shows
checkAuthStatus == IF isAuthenticated THEN "main" ELSE "auth"

\* loadPosts lines 206-222, up to the fetch of its getPosts({limit: 12[, search]}):
\* the page with the new load noted as the newest one
Loading(page, c, search, filter) ==
    [page EXCEPT
        !.loads = [d \in Calls |->
                      IF d = c THEN [search |-> search, filter |-> filter, newest |-> TRUE]
                      ELSE [page.loads[d] EXCEPT !.newest = FALSE]],
        !.feed = [page.feed EXCEPT !.newest = FALSE]]

loadPosts(page, c, search, filter) ==
    /\ Free(c)
    /\ Send(c, "getPosts",
            getPostsUrl(12, NoNumber, NoText, IF search = <<>> THEN NoText ELSE search),
            "GET", NoPayload)
    /\ ui' = Loading(page, c, search, filter)

\* the DOMContentLoaded handler: new SocialMediaApp(), that is init()
init ==
    /\ ui.view = "none"
    /\ IF isAuthenticated THEN
           \E c \in Calls :
               loadPosts([ui EXCEPT !.view = checkAuthStatus,
                                    !.currentUser = getCurrentUser], c, <<>>, <<>>)
       ELSE
           /\ ui' = [ui EXCEPT !.view = checkAuthStatus]
           /\ last' = Returned("init")
           /\ UNCHANGED <<impl, localStorage, calls, keyToken>>

\* the page is reloaded: every call and the page's state are gone, the
\* store stays
reload ==
    /\ ui.view # "none"
    /\ calls' = [c \in Calls |-> Idle]
    /\ ui' = NoPage
    /\ last' = NoEvent
    /\ UNCHANGED <<impl, localStorage, keyToken>>

\* handleLogin lines 128-139: the form is submitted, with both fields filled
\* or not
handleLogin(c, filled) ==
    /\ ui.view = "auth" /\ Ready
    /\ IF filled THEN login(c) /\ UNCHANGED ui
       ELSE /\ ui' = [ui EXCEPT !.alert = FillInAllFields]
            /\ last' = Returned("handleLogin")
            /\ UNCHANGED <<impl, localStorage, calls, keyToken>>

\* handleLogin lines 141-152: the awaited login has settled
handleLogin_resume ==
    /\ Due("login")
    /\ IF last.kind = "resolved" THEN
           \E c \in Calls :
               loadPosts([ui EXCEPT !.currentUser = getCurrentUser,
                                    !.alert = <<"Login successful!">>,
                                    !.view = "main"], c, <<>>, <<>>)
       ELSE
           /\ ui' = [ui EXCEPT !.alert = last.message]
           /\ last' = Returned("handleLogin")
           /\ UNCHANGED <<impl, localStorage, calls, keyToken>>

\* handleLogout lines 196-201
handleLogout ==
    /\ ui.view = "main" /\ Ready
    /\ logout
    /\ ui' = [ui EXCEPT !.currentUser = NoData, !.view = "auth",
                        !.alert = <<"Logged out successfully">>]

\* the home link, handleSearch(query) and handleFilter(filter): loadPosts
homeLink(c) ==
    /\ ui.view = "main" /\ Ready
    /\ loadPosts(ui, c, <<>>, <<>>)

handleSearch(c, query) ==
    /\ ui.view = "main" /\ Ready
    /\ loadPosts(ui, c, query, <<>>)

handleFilter(c, filter) ==
    /\ ui.view = "main" /\ Ready
    /\ loadPosts(ui, c, <<>>, filter)

\* loadPosts lines 222-231: the awaited getPosts has settled; its posts are
\* rendered, or its error is shown
loadPosts_resume ==
    /\ Due("getPosts")
    /\ \E c \in Calls :
          /\ calls[c].pc = "idle" /\ ui.loads[c] # NoLoad
          /\ ui' = IF last.kind = "resolved"
                   THEN [ui EXCEPT !.feed = ui.loads[c], !.loads[c] = NoLoad]
                   ELSE [ui EXCEPT !.alert = <<"Failed to load posts: ">> \o last.message,
                                   !.loads[c] = NoLoad]
    /\ last' = Returned("loadPosts")
    /\ UNCHANGED <<impl, localStorage, calls, keyToken>>

\* what the store can hold when the page is opened: nothing, a whole
\* session, or the session of a login whose key request failed
PageStores ==
    { EmptyStorage,
      StoreOf("t1", "k1", [name |-> "ola", accessToken |-> "t1"]),
      StoreOf("t1", NULL, [name |-> "ola", accessToken |-> "t1"]) }

\* the answers the page's requests get: of each endpoint's, a failure and
\* a success (and the login answer without accessToken)
PageLoginResponses ==
    { r \in LoginResponses : ~r.net \/ (r.status = 200 /\ r.json /\ r.data.name = "ola") }
PageKeyResponses ==
    { r \in KeyResponses : r.json /\ (r.status = 500 \/ r.key = "k1") }
PageResourceResponses ==
    { r \in ResourceResponses : ~r.net \/ r.status = 200 }

PageInit ==
    /\ impl \in Impls
    /\ ui = NoPage
    /\ localStorage \in PageStores
    /\ calls = [c \in Calls |-> Idle]
    /\ last = NoEvent
    /\ keyToken = Untracked

PageNext ==
    \/ init
    \/ reload
    \/ \E c \in Calls, filled \in BOOLEAN : handleLogin(c, filled)
    \/ \E c \in Calls, r \in PageLoginResponses :
          Ready /\ login_resume(c, r) /\ UNCHANGED ui
    \/ \E c \in Calls : Ready /\ createApiKey_timer(c) /\ UNCHANGED ui
    \/ \E c \in Calls, r \in PageKeyResponses :
          Ready /\ createApiKey_resume(c, r) /\ UNCHANGED ui
    \/ handleLogin_resume
    \/ handleLogout
    \/ \E c \in Calls : homeLink(c)
    \/ \E c \in Calls, query \in SearchTexts : handleSearch(c, query)
    \/ \E c \in Calls, filter \in FilterTexts : handleFilter(c, filter)
    \/ \E c \in Calls, r \in PageResourceResponses :
          Ready /\ resource_resume(c, r) /\ UNCHANGED ui
    \/ loadPosts_resume

PageSpec == PageInit /\ [][PageNext]_vars

----------------------------------------------------------------------------
\* debounce(func, wait) (ui.js): the function it returns, its timer and the
\* clock.  Time passes in ticks; a timer task is ready when its delay is
\* over and runs before more time passes, but a call that comes at that same
\* instant may run before it.  DebounceSpec is the specification; there ui
\* holds the clock and the closure of the debounced function.

MaxTime == 6                        \* ticks the clock runs
DebounceWait == 2                   \* the wait passed to debounce, in ticks

DebounceArgs == { <<"a">>, <<"b">> }

\* timeout: the pending timer (due: when it is ready; args: the arguments
\* its callback holds).  calledAt, calledWith: the latest call of the
\* debounced function.  burst: the calls of the burst the latest call belongs
\* to, a burst ending when func runs (2: two or more).  invoked: how often
\* func has run since the latest call.
NoTimeout == [due |-> -1, args |-> NoText]
NoDebounce == [now |-> 0, timeout |-> NoTimeout, calledAt |-> -1, calledWith |-> NoText,
               burst |-> 0, invoked |-> 0]

\* a debounced function that leaves a pending timer running
setTimeout_unlessPending(timeout, now, args) ==
    IF timeout = NoTimeout THEN [due |-> now + DebounceWait, args |-> args]
    ELSE [due |-> timeout.due, args |-> args]

\* lines 179-180: clearTimeout(timeout); timeout = setTimeout(later, wait)
setTimeout(timeout, now, args) == [due |-> now + DebounceWait, args |-> args]

\* the debounced function is called (lines 174-181)
executedFunction(args) ==
    /\ ui' = [ui EXCEPT !.timeout = setTimeout(ui.timeout, ui.now, args),
                        !.calledAt = ui.now, !.calledWith = args,
                        !.burst = IF ui.invoked >= 1 THEN 1 ELSE IF @ < 2 THEN @ + 1 ELSE 2,
                        !.invoked = 0]
    /\ last' = [NoEvent EXCEPT !.op = "executedFunction", !.kind = "called", !.arg = args]
    /\ UNCHANGED <<impl, localStorage, calls, keyToken>>

\* the timer's callback runs (lines 175-178): func(...args)
later ==
    /\ ui.timeout # NoTimeout /\ ui.now >= ui.timeout.due
    /\ ui' = [ui EXCEPT !.timeout = NoTimeout, !.invoked = @ + 1]
    /\ last' = [NoEvent EXCEPT !.op = "func", !.kind = "called", !.arg = ui.timeout.args]
    /\ UNCHANGED <<impl, localStorage, calls, keyToken>>

\* a tick of the clock, with no timer task waiting to run
tick ==
    /\ ui.now < MaxTime
    /\ ui.timeout = NoTimeout \/ ui.now < ui.timeout.due
    /\ ui' = [ui EXCEPT !.now = @ + 1]
    /\ last' = NoEvent
    /\ UNCHANGED <<impl, localStorage, calls, keyToken>>

DebounceInit ==
    /\ impl \in Impls
    /\ ui = NoDebounce
    /\ localStorage = EmptyStorage
    /\ calls = [c \in Calls |-> Idle]
    /\ last = NoEvent
    /\ keyToken = Untracked

DebounceNext ==
    \/ \E args \in DebounceArgs : executedFunction(args)
    \/ later
    \/ tick

DebounceSpec == DebounceInit /\ [][DebounceNext]_vars

----------------------------------------------------------------------------
\* Vocabulary of the claims

Stored(k) == k \in DOMAIN localStorage

\* the key request got no key: 401, 500, another non-2xx, no response, a body
\* that does not parse, or a 2xx answer without a key
KeyFailed(r) == ~(r.net /\ r.json /\ Ok(r.status) /\ r.key \in Keys)

\* a login settled in the latest step, after its token exchange answered 2xx
\* with an accessToken
LoginWithToken ==
    /\ last.op = "login"
    /\ last.body.data.accessToken \in Tokens

\* ... and the store holds the token and the user of that login
HoldsLoginOf(ev) ==
    /\ Stored("authToken") /\ localStorage["authToken"] = ev.body.data.accessToken
    /\ Stored("userData") /\ localStorage["userData"] = Stringify(ev.body.data)

----------------------------------------------------------------------------
C2_KeyFailureKeepsLogin ==
    (LoginWithToken /\ last.keyReqs = 1 /\ KeyFailed(last.keyResp)) =>
        /\ last.kind = "resolved"
        /\ last.value = last.body
        /\ last.solo => HoldsLoginOf(last)

\* a login resolved though the key endpoint answered 500, token still stored
C2_Witness ==
    /\ LoginWithToken /\ last.keyReqs = 1 /\ last.keyResp.status = 500
    /\ last.kind = "resolved" /\ last.solo /\ HoldsLoginOf(last)

C4_After500 ==
    (LoginWithToken /\ ~last.hadKey /\ last.keyReqs = 1
        /\ last.keyResp.net /\ last.keyResp.status = 500) =>
        /\ last.kind = "resolved"
        /\ last.solo => ~isAuthenticated

C4_FalseUntilKeyStored ==
    (Stored("authToken") /\ ~isAuthenticated /\ isAuthenticated') =>
        /\ last'.keyReqs = 1 /\ ~KeyFailed(last'.keyResp)
        /\ last'.op \in {"login", "ensureApiKey", "createApiKey"}
        /\ localStorage' = setItem(localStorage, "apiKey", last'.keyResp.key)

C5_LogoutClears ==
    last.op = "logout" =>
        /\ ~Stored("authToken") /\ ~Stored("apiKey") /\ ~Stored("userData")
        /\ ~isAuthenticated
        /\ getCurrentUser = NoData

\* logout has just run on a store that held a user and a key
C5_Witness ==
    /\ last.op = "logout" /\ last.hadKey /\ last.body.data.accessToken \in Tokens
    /\ localStorage = EmptyStorage

\* C6 as stated: whenever a login resolves, authToken and userData are stored
\* with the values its token exchange returned.
C6_ResolvedLoginStored ==
    (last.op = "login" /\ last.kind = "resolved") => HoldsLoginOf(last)

\* C7.  ensureApiKey is idempotent.  With an apiKey stored it sends no key
\* request, leaves the store as it is and resolves; with none stored it sends
\* exactly one key request; and an ensureApiKey called right after one that
\* resolved sends no request and leaves the store as it is.
C7_RequestCount ==
    /\ \A c \in Calls : calls[c].keyReqs <= 1
    /\ last.op = "ensureApiKey" =>
          /\ last.hadKey => last.keyReqs = 0 /\ last.kind = "resolved" /\ Stored("apiKey")
          /\ ~last.hadKey => last.keyReqs = 1

C7_NoOpWithKey ==
    /\ (last'.op = "ensureApiKey" /\ last'.hadKey) =>
          localStorage' = localStorage /\ last'.headers = EmptyStorage
    /\ (last.op = "ensureApiKey" /\ last.kind = "resolved"
          /\ last'.op = "ensureApiKey" /\ calls' = calls) =>
          last'.keyReqs = 0 /\ last'.kind = "resolved" /\ localStorage' = localStorage

C7_EnsureApiKeyIdempotent == [](C7_RequestCount) /\ [][C7_NoOpWithKey]_vars

\* ensureApiKey returned at once because a key was stored
C7_Witness ==
    /\ last.op = "ensureApiKey" /\ last.hadKey /\ last.keyReqs = 0
    /\ last.kind = "resolved" /\ Stored("apiKey")

\* C8 as stated, for answers with a JSON body: createApiKey (part_001) rejects
\* with the server-error message for every 5xx status, with the unauthorized
\* message for 401, and with the server's first error message (or the generic
\* text) for every other non-2xx status.
C8_StatusToKind ==
    (impl = "part_001" /\ last.op = "createApiKey"
        /\ last.keyResp.net /\ last.keyResp.json /\ ~Ok(last.keyResp.status)) =>
        /\ last.kind = "rejected"
        /\ last.message =
             IF last.keyResp.status = 401 THEN Unauthorized
             ELSE IF last.keyResp.status >= 500 /\ last.keyResp.status <= 599
                  THEN ServerError
             ELSE FirstErrorOr(last.keyResp.errors, KeyCreationFailed(last.keyResp.status))

\* C9 as stated, for answers with a JSON body: a direct createApiKey call
\* rejects with the unauthorized error on 401, with the server error on 500
\* and with the network error when fetch rejects: three different outcomes.
C9_ThreeKinds ==
    (last.op = "createApiKey" /\ last.keyReqs = 1) =>
        /\ (last.keyResp.net /\ last.keyResp.json /\ last.keyResp.status = 401) =>
              last.kind = "rejected" /\ last.message = Unauthorized
        /\ (last.keyResp.net /\ last.keyResp.json /\ last.keyResp.status = 500) =>
              last.kind = "rejected" /\ last.message = ServerError
        /\ ~last.keyResp.net =>
              last.kind = "rejected" /\ last.message = FetchFailed

\* C10 as stated: a direct createApiKey call resolves only if it stored the
\* key the server returned, and rejects whenever it stores none.
C10_ResolvesOnlyIfStored ==
    (last.op = "createApiKey" /\ last.keyReqs = 1) =>
        IF KeyFailed(last.keyResp)
        THEN last.kind = "rejected"
        ELSE /\ last.kind = "resolved"
             /\ Stored("apiKey") /\ localStorage["apiKey"] = last.keyResp.key

\* C11.  For every store (token absent, empty or set; apiKey absent, empty or
\* set), getAuthHeaders() returns, and what it returns holds the default
\* Content-Type, Authorization = "Bearer <token>" exactly when a non-empty
\* token is stored, X-Noroff-API-Key = <apiKey> exactly when a non-empty
\* apiKey is stored, and nothing else; the call leaves the store as it was.
C11_Headers ==
    (last.op = "getAuthHeaders" /\ last.kind # "called") =>
        /\ last.kind = "returned"
        /\ DOMAIN last.ret \subseteq {"Content-Type", "Authorization", "X-Noroff-API-Key"}
        /\ "Content-Type" \in DOMAIN last.ret
        /\ last.ret["Content-Type"] = <<"application/json">>
        /\ "Authorization" \in DOMAIN last.ret <=>
              (Stored("authToken") /\ localStorage["authToken"] # "")
        /\ "Authorization" \in DOMAIN last.ret =>
              last.ret["Authorization"] = <<"Bearer ", localStorage["authToken"]>>
        /\ "X-Noroff-API-Key" \in DOMAIN last.ret <=>
              (Stored("apiKey") /\ localStorage["apiKey"] # "")
        /\ "X-Noroff-API-Key" \in DOMAIN last.ret =>
              last.ret["X-Noroff-API-Key"] = <<localStorage["apiKey"]>>

C11_StoreKept == last'.op = "getAuthHeaders" => localStorage' = localStorage

C11_GetAuthHeaders == [](C11_Headers) /\ [][C11_StoreKept]_vars

\* getAuthHeaders() returned the key header alone: a key and no token stored
C11_Witness ==
    /\ last.op = "getAuthHeaders" /\ last.kind = "returned"
    /\ ~Stored("authToken") /\ Stored("apiKey") /\ localStorage["apiKey"] \in Keys
    /\ DOMAIN last.ret = {"Content-Type", "X-Noroff-API-Key"}

\* C12 as stated: in every execution, a step in which a login sends its key
\* request comes after that login's token exchange returned a token, and the
\* request carries Authorization: Bearer <the token of that login>.
C12_SendsOwnToken ==
    \A c \in Calls :
        (calls'[c].op = "login" /\ calls'[c].pc = "key_fetch" /\ calls[c].pc # "key_fetch") =>
            /\ calls'[c].body.data.accessToken \in Tokens
            /\ "Authorization" \in DOMAIN last'.headers
            /\ last'.headers["Authorization"] =
                  <<"Bearer ", calls'[c].body.data.accessToken>>

C12_KeyRequestCarriesLoginToken == [][C12_SendsOwnToken]_vars

\* C13 as stated: when a token is stored and no apiKey, an authenticated
\* request of a resource client provisions the missing key.  So once a
\* PostsService or ProfilesService call has been answered and a token is
\* stored, either an apiKey is stored or the call has sent a key request.
C13_LazyKeyOnRequest ==
    (last.op \in ResourceOps /\ last.kind \in {"resolved", "rejected"}
        /\ last.resp.status # NoResp.status
        /\ Truthy(getItem(localStorage, "authToken"))) =>
        (Truthy(getItem(localStorage, "apiKey")) \/ last.keyReqs >= 1)

\* C14 as stated, for AuthService: a login whose token exchange failed (no
\* answer, or a non-2xx answer) rejects, and an ensureApiKey or a direct
\* createApiKey whose key request failed (no answer, or a non-2xx answer)
\* rejects; only a login's key step may fail without the call rejecting.
C14_FailedRequestRejects ==
    /\ (last.op = "login" /\ last.kind # "none" /\ last.body.data = NoData) =>
          last.kind = "rejected"
    /\ (last.op \in {"ensureApiKey", "createApiKey"} /\ last.keyReqs = 1
          /\ (~last.keyResp.net \/ ~Ok(last.keyResp.status))) =>
          last.kind = "rejected"

\* the errors a non-2xx answer makes operation op reject with
C15_ApplicationErrors(op) ==
    { Wrapped(op, <<FailText(op), ": ">> \o FirstErrorOr(r.errors, <<FailText(op)>>))
        : r \in { x \in ResourceResponses : x.net /\ x.json /\ ~Ok(x.status) } }

\* C15 as stated: when a PostsService or ProfilesService call is answered
\* non-2xx, the error it rejects with carries the operation's name, the HTTP
\* status and the server's message; and when its request got no answer, the
\* error is one that no non-2xx answer could have produced.
C15_ErrorTellsStatusAndKind ==
    (last.op \in ResourceOps /\ last.kind = "rejected"
        /\ last.resp.status # NoResp.status) =>
        /\ (last.resp.net /\ last.resp.json /\ ~Ok(last.resp.status)) =>
              /\ \E i \in 1..Len(last.message) : last.message[i] = FailText(last.op)
              /\ \E i \in 1..Len(last.message) :
                    last.message[i] = StatusText(last.resp.status)
              /\ Len(last.resp.errors) >= 1 =>
                    \E i \in 1..Len(last.message) :
                        last.message[i] = last.resp.errors[1]
        /\ ~last.resp.net => last.message \notin C15_ApplicationErrors(last.op)

\* C16 as stated, for AuthService: when a login, an ensureApiKey or a direct
\* createApiKey rejects on a non-2xx answer (401 and 500 included) whose
\* body lists errors, the message of the error contains the first listed
\* message; when the body lists none, the message of a key call is the
\* generic "API key creation failed" text.
C16_ServerMessageSurfaced ==
    /\ (last.op = "login" /\ last.kind = "rejected" /\ Len(last.body.errors) >= 1) =>
          \E i \in 1..Len(last.message) : last.message[i] = last.body.errors[1]
    /\ (last.op \in {"ensureApiKey", "createApiKey"} /\ last.kind = "rejected"
          /\ last.keyResp.net /\ last.keyResp.json /\ ~Ok(last.keyResp.status)) =>
          IF Len(last.keyResp.errors) >= 1
          THEN \E i \in 1..Len(last.message) : last.message[i] = last.keyResp.errors[1]
          ELSE last.message = KeyCreationFailed(last.keyResp.status)

\* the limit and page a getPosts call asks for, written out
C17_LimitText(limit) ==
    CASE limit = 5 -> <<"5">> [] limit = 100 -> <<"1", "0", "0">> [] OTHER -> <<"1", "2">>

C17_PageText(page) == IF page = 2 THEN <<"2">> ELSE <<"1">>

\* C17.  getPosts (and searchPosts) with a non-empty search query sends its
\* request to <base>/social/posts/search, never to the listing URL, with a q
\* parameter that decodes to the query and with the limit and page it would
\* send to the listing; with an empty or missing query it sends the request
\* to <base>/social/posts with the same limit and page and no q parameter.
C17_SearchUsesSearchEndpoint ==
    (last.op \in {"getPosts", "searchPosts"} /\ last.kind = "built") =>
        LET a == last.arg
            q == last.req.query
            names == { q[i][1] : i \in 1..Len(q) }
            pairs == { q[i] : i \in 1..Len(q) }
        IN  /\ last.req.method = "GET"
            /\ <<"limit", C17_LimitText(a.limit)>> \in pairs
            /\ <<"page", C17_PageText(a.page)>> \in pairs
            /\ IF a.search # NoText /\ a.search # <<>>
               THEN /\ last.req.path = <<"https://v2.api.noroff.dev", "/social/posts",
                                         "/search">>
                    /\ q[1][1] = "q"
                    /\ [i \in 1..Len(q[1][2]) |->
                          IF q[1][2][i] = "%20" THEN " " ELSE q[1][2][i]] = a.search
                    /\ Cardinality({ i \in 1..Len(q) : q[i][1] = "q" }) = 1
               ELSE /\ last.req.path = <<"https://v2.api.noroff.dev", "/social/posts">>
                    /\ "q" \notin names

\* getPosts({search: "a b", limit: 5}) went to the search endpoint
C17_Witness ==
    /\ last.op = "getPosts" /\ last.kind = "built"
    /\ last.arg.search = <<"a", " ", "b">> /\ last.arg.limit = 5
    /\ last.req.path[3] = "/search"
    /\ last.req.query[1] = <<"q", <<"a", "%20", "b">>>>

\* a text without the whitespace around it: from its first to its last
\* character that is not whitespace
C18_Core(t) ==
    LET solid == { i \in 1..Len(t) : t[i] \notin {" ", "\t"} }
    IN  IF solid = {} THEN <<>>
        ELSE SubSeq(t, CHOOSE i \in solid : \A j \in solid : i <= j,
                       CHOOSE i \in solid : \A j \in solid : i >= j)

\* the entries of tags that are not blank, in their order, each without the
\* whitespace around it
C18_Expected(tags) ==
    LET keep == { i \in 1..Len(tags) : C18_Core(tags[i]) # <<>> }
        nth(k) == CHOOSE i \in keep : Cardinality({ j \in keep : j <= i }) = k
    IN  [k \in 1..Cardinality(keep) |-> C18_Core(tags[nth(k)])]

\* C18.  For every tags array, the tags createPost and updatePost send are
\* the entries of the array in their order, each trimmed, the empty and the
\* whitespace-only ones left out.  And whatever is typed into the tags field,
\* the tags handleSavePost makes createPost or updatePost send are trimmed,
\* non-empty and free of commas; typing "a, , b ," sends ["a", "b"].
C18_TagsTrimmedAndFiltered ==
    /\ (last.op \in {"createPost", "updatePost"} /\ last.kind = "built") =>
          last.req.payload.tags = C18_Expected(last.arg.tags)
    /\ (last.op = "handleSavePost" /\ last.kind = "built") =>
          LET sent == last.req.payload.tags
          IN  /\ \A i \in 1..Len(sent) :
                    /\ sent[i] # <<>> /\ C18_Core(sent[i]) = sent[i]
                    /\ \A j \in 1..Len(sent[i]) : sent[i][j] # ","
              /\ last.arg.tags = <<"a", ",", " ", ",", " ", "b", " ", ",">> =>
                    sent = << <<"a">>, <<"b">> >>

\* "a, , b ," was typed and a new post was sent with the tags ["a", "b"]
C18_Witness ==
    /\ last.op = "handleSavePost" /\ last.kind = "built"
    /\ last.arg.tags = <<"a", ",", " ", ",", " ", "b", " ", ",">>
    /\ last.req.method = "POST"
    /\ last.req.payload.tags = << <<"a">>, <<"b">> >>

\* a media URL argument that has something in it besides whitespace
C19_HasUrl(media) ==
    media # NoText /\ \E i \in 1..Len(media) : media[i] \notin {" ", "\t"}

\* C19.  The payload createPost and updatePost send (called directly or by
\* handleSavePost) has a media field exactly when the media URL passed is
\* non-empty after trimming, and its url is then the trimmed URL; when the
\* URL is null, empty or whitespace-only the payload consists of title, body
\* and tags alone.
C19_MediaOnlyWithUrl ==
    (last.op \in {"createPost", "updatePost", "handleSavePost"} /\ last.kind = "built") =>
        LET payload == last.req.payload
        IN  IF C19_HasUrl(last.arg.media)
            THEN /\ DOMAIN payload = {"title", "body", "tags", "media"}
                 /\ DOMAIN payload.media = {"url", "alt"}
                 /\ payload.media.url # <<>>
                 /\ payload.media.url[1] \notin {" ", "\t"}
                 /\ payload.media.url[Len(payload.media.url)] \notin {" ", "\t"}
                 /\ \E pre, post \in {<<>>, <<" ">>} :
                       last.arg.media = pre \o payload.media.url \o post
            ELSE DOMAIN payload = {"title", "body", "tags"}

\* createPost was called with a whitespace-only media URL and sent no media
C19_Witness ==
    /\ last.op = "createPost" /\ last.kind = "built"
    /\ last.arg.media = <<" ">>
    /\ DOMAIN last.req.payload = {"title", "body", "tags"}

\* the addresses among Emails that end, letter case aside, with @noroff.no
\* or @stud.noroff.no
C20_NoroffAddresses ==
    { <<"X", "@", "S", "T", "U", "D", ".", "N", "O", "R", "O", "F", "F", ".", "N", "O">>,
      <<"x", "@", "s", "t", "u", "d", ".", "n", "o", "r", "o", "f", "f", ".", "n", "o">>,
      <<"x", "@", "n", "o", "r", "o", "f", "f", ".", "n", "o">>,
      <<"x", "@", "N", "o", "r", "o", "f", "f", ".", "N", "o">>,
      <<"@", "N", "O", "R", "O", "F", "F", ".", "N", "O">> }

\* C20.  isValidNoroffEmail(email) returns true exactly for the addresses
\* that end, letter case aside, with @noroff.no or @stud.noroff.no (true for
\* "X@STUD.NOROFF.NO" and for its lower-case spelling, false for
\* "x@gmail.com", for "X@noroff.no.x" and for "xnoroff.no"), whatever the
\* store holds, and the call leaves the store as it was.
C20_Result ==
    (last.op = "isValidNoroffEmail" /\ last.kind = "returned") =>
        (last.ret <=> last.arg \in C20_NoroffAddresses)

C20_Pure == last'.op = "isValidNoroffEmail" => localStorage' = localStorage

C20_IsValidNoroffEmail == [](C20_Result) /\ [][C20_Pure]_vars

\* isValidNoroffEmail("X@STUD.NOROFF.NO") returned true with a session stored
C20_Witness ==
    /\ last.op = "isValidNoroffEmail" /\ last.kind = "returned"
    /\ Len(last.arg) = 16 /\ last.arg[1] = "X" /\ last.arg[3] = "S"
    /\ last.ret = TRUE
    /\ Stored("authToken")

\* C21.  handleRegister hands a registration request to fetch only when
\* name, email and password are all non-empty, the email passes
\* isValidNoroffEmail and the password has at least 8 characters; when any
\* of these checks fails no request is sent and an error alert is shown.
C21_RegisterOnlyWhenChecksPass ==
    (last.op = "handleRegister" /\ last.kind # "called") =>
        IF /\ last.arg.name # <<>> /\ last.arg.email # <<>> /\ last.arg.password # <<>>
           /\ isValidNoroffEmail(last.arg.email)
           /\ Len(last.arg.password) >= 8
        THEN /\ last.kind = "built"
             /\ last.req.method = "POST"
             /\ last.req.path = <<BASE_URL, "/auth/register">>
             /\ last.req.payload = last.arg
        ELSE /\ last.kind = "alert"
             /\ last.message # <<>>
             /\ last.req = NoReq

\* a 7-character password with a valid name and email ended in an alert
C21_Witness ==
    /\ last.op = "handleRegister" /\ last.kind = "alert"
    /\ last.arg.name # <<>> /\ isValidNoroffEmail(last.arg.email)
    /\ Len(last.arg.password) = 7
    /\ last.req = NoReq

C23_Session(ls) == [k \in DOMAIN ls \cap {"authToken", "userData"} |-> ls[k]]

\* C23.  authToken and userData are written only by a login whose response
\* carries an accessToken, which replaces both, and removed only by logout,
\* which removes both; register, ensureApiKey, createApiKey and every
\* PostsService and ProfilesService operation leave the two items as they
\* were in every step they take, whether they end well or not.
C23_OnlyLoginAndLogout ==
    /\ C23_Session(localStorage') # C23_Session(localStorage) =>
          \/ /\ last'.op = "logout"
             /\ C23_Session(localStorage') = EmptyStorage
          \/ \E c \in Calls, d \in LoginDatas :
                /\ calls[c].op = "login" /\ calls[c].pc = "login_fetch"
                /\ calls'[c].pc # "login_fetch"
                /\ Truthy(d.accessToken)
                /\ C23_Session(localStorage') =
                      [k \in {"authToken", "userData"} |->
                          IF k = "authToken" THEN d.accessToken ELSE Stringify(d)]
    /\ \A c \in Calls :
          (calls[c].op \in {"register", "ensureApiKey", "createApiKey"} \cup ResourceOps
              /\ calls'[c] # calls[c]) =>
             C23_Session(localStorage') = C23_Session(localStorage)
    /\ last'.op \in {"register", "ensureApiKey", "createApiKey"} \cup ResourceOps =>
          C23_Session(localStorage') = C23_Session(localStorage)

C23_WrittenOnlyByLoginAndLogout == [][C23_OnlyLoginAndLogout]_vars

\* a createApiKey called on its own was refused (401) and the token and the
\* user of the session are still stored
C23_Witness ==
    /\ last.op = "createApiKey" /\ last.kind = "rejected"
    /\ last.keyResp.status = 401
    /\ Stored("authToken") /\ Stored("userData")

\* C24.  Once logout() has run, the store stays empty until a login is
\* started after that logout: the step that follows a logout, when it is the
\* step of a login, ensureApiKey or createApiKey call that was in flight
\* when logout ran, writes no token, no user and no key.  (Any call started
\* after the logout begins with a step that writes nothing.)
C24_NoWriteAfterLogout ==
    (last.op = "logout" /\ \E c \in Calls : calls[c].pc # "idle" /\ calls'[c] # calls[c]) =>
        localStorage' = EmptyStorage

C24_LogoutIsFinal == [][C24_NoWriteAfterLogout]_vars

\* C25.  In every reachable state, however login, ensureApiKey, createApiKey
\* and logout interleave at their awaits, a stored apiKey implies a stored
\* authToken: the store never holds an API key without a bearer token.
\* (Asked here of the keys answered to a request that carried a token.)
C25_KeyImpliesToken ==
    (Stored("apiKey") /\ keyToken # NULL) => Stored("authToken")

\* C26.  At every await of every execution, authToken and userData are
\* either both stored or both absent, and when they are stored userData is
\* the serialized answer of a login whose accessToken is the stored
\* authToken: no call ever finds one without the other.
C26_TokenAndUserTogether ==
    /\ Stored("authToken") <=> Stored("userData")
    /\ Stored("authToken") =>
          \E d \in LoginDatas :
              /\ Truthy(d.accessToken)
              /\ localStorage["authToken"] = d.accessToken
              /\ localStorage["userData"] = Stringify(d)

\* a second login, by another account, has replaced the token and the user of
\* the first while a call of the first session is still waiting
C26_Witness ==
    /\ Stored("authToken") /\ localStorage["authToken"] = "t2"
    /\ Stored("userData") /\ localStorage["userData"] = Stringify([name |-> "kari", accessToken |-> "t2"])
    /\ \E c \in Calls : /\ calls[c].op = "login" /\ calls[c].pc = "key_fetch"
                         /\ calls[c].body.data.accessToken = "t1"

\* the login in slot c got the answer to its token exchange in this step, and
\* the answer carried no login data: a non-2xx status, no response at all, or
\* a body that does not parse
C27_Failed(c) ==
    /\ calls[c].op = "login" /\ calls[c].pc = "login_fetch"
    /\ calls'[c].pc # "login_fetch"
    /\ IF calls'[c].pc = "idle" THEN last'.op = "login" /\ last'.body.data = NoData
       ELSE calls'[c].body.data = NoData

\* C27.  A login whose token exchange fails (non-2xx answer, transport
\* failure or unparsable body) rejects, leaves authToken, apiKey and
\* userData exactly as they were before, and sends no key request.
C27_FailedLoginStep ==
    \A c \in Calls :
        C27_Failed(c) =>
            /\ last'.op = "login" /\ last'.kind = "rejected"
            /\ localStorage' = localStorage
            /\ calls'[c] = Idle
            /\ last'.keyReqs = 0 /\ last'.headers = EmptyStorage

C27_FailedLoginChangesNothing == [][C27_FailedLoginStep]_vars

\* a login was refused while the session of an earlier login is stored, and
\* the session is still there
C27_Witness ==
    /\ last.op = "login" /\ last.kind = "rejected" /\ last.body.data = NoData
    /\ last.message = <<"Login failed: ", "e1">>
    /\ Stored("authToken") /\ Stored("apiKey") /\ Stored("userData")

\* C28.  The main view is shown (the auth page hidden) only in states where
\* isAuthenticated() is true: after the page's initialisation, handleLogin
\* and handleLogout, whenever the main view is visible a token and an API
\* key are both stored, so that a reload of the page shows the same view.
\* (Asked here of the end of a handleLogin whose login got a token.)
C28_AfterHandleLogin ==
    (Due("login") /\ last.kind = "resolved" /\ LoginWithToken /\ ui'.view = "main") =>
        /\ Truthy(getItem(localStorage', "authToken"))
        /\ Truthy(getItem(localStorage', "apiKey"))

C28_MainViewOnlyWhenAuthenticated == [][C28_AfterHandleLogin]_vars

\* C29.  When several feed loads (searches, filters, reloads of the feed)
\* are issued one after another and their requests overlap, then once all
\* the answers have arrived the feed shows the result of the load issued
\* last, whatever the order of the answers: a feed that shows the newest
\* load still shows it after the step in which the last outstanding answer
\* arrives (or, at least, the result of a load for the same search and
\* filter).
C29_NewestStays ==
    (/\ ui.feed.newest
     /\ ui'.view # "none"
     /\ \A c \in Calls : ui'.loads[c] = NoLoad) =>
        /\ ui'.feed.search = ui.feed.search
        /\ ui'.feed.filter = ui.feed.filter

C29_LatestLoadWins == [][C29_NewestStays]_vars

\* func has run at most once since the latest call of the debounced
\* function; until it has, the timer of that call is pending, due wait after
\* the call and holding its arguments; and once more than wait has passed
\* since the call it has run
C30_OncePerBurst ==
    /\ ui.invoked <= 1
    /\ (ui.calledAt # -1 /\ ui.invoked = 0) =>
          ui.timeout = [due |-> ui.calledAt + DebounceWait, args |-> ui.calledWith]
    /\ (ui.calledAt # -1 /\ ui.now > ui.calledAt + DebounceWait) => ui.invoked = 1

\* func runs only wait after the latest call, with the arguments of that call
C30_AfterTheBurst ==
    last'.op = "func" =>
        /\ ui.calledAt # -1 /\ ui.now = ui.calledAt + DebounceWait
        /\ last'.arg = ui.calledWith
        /\ ui.invoked = 0

\* a call made `gap` or more after the previous one finds that func has run
\* for the previous one
C30_Separated(gap) ==
    (last'.op = "executedFunction" /\ ui.calledAt # -1 /\ ui.now - ui.calledAt >= gap) =>
        ui.invoked = 1

====
